---------------------------- MODULE Spec2Model ----------------------------
(***************************************************************************)
(* senza/respawn.py: rolling replacement of the instances of an Auto       *)
(* Scaling Group whose launch configuration is out of date.                *)
(*                                                                         *)
(* The program is one synchronous run of respawn_auto_scaling_group.  It   *)
(* talks to a provider (boto3 'autoscaling' and 'elb' clients) whose state *)
(* changes between the program's calls; the provider is modelled as a set  *)
(* of actions that interleave with the program's steps.  Every provider    *)
(* call of the program is one step.                                        *)
(***************************************************************************)
EXTENDS Integers, Sequences, FiniteSets, TLC

VARIABLES
    \* ---- provider (remote) state
    asg,                    \* the group as describe_auto_scaling_groups reports it
    elb,                    \* load balancer name -> InstanceStates list
    termReq,                \* instances with a termination request not yet effected
    launched,               \* number of instances the provider launched so far
    \* ---- program state (locals of respawn.py)
    pc,
    inplace,
    group,
    desired_launch_config,
    instances_to_terminate,
    instances_ok,
    new_min_size,
    new_max_size,
    new_desired_capacity,
    current_group,
    instance,
    instances_in_service,
    error,                  \* the message of the exception that ended the run, or None
    \* ---- the mutating provider calls issued so far, in order
    calls,
    \* ---- the locals of a second run against the same group, while the
    \* ---- first one is scheduled (two concurrent invocations)
    other

provider == <<asg, elb, termReq, launched>>
sizes    == <<new_min_size, new_max_size, new_desired_capacity>>
classes  == <<desired_launch_config, instances_to_terminate, instances_ok>>
vars     == <<asg, elb, termReq, launched, pc, inplace, group,
              desired_launch_config, instances_to_terminate, instances_ok,
              new_min_size, new_max_size, new_desired_capacity,
              current_group, instance, instances_in_service, error, calls,
              other>>

----------------------------------------------------------------------------
(* Bounds of the model *)

\* largest desired capacity of the group when the run starts
MaxDesired == 2

----------------------------------------------------------------------------
(* Module constants of respawn.py *)

SCALING_PROCESSES_TO_SUSPEND == <<"AZRebalance", "AlarmNotification", "ScheduledActions">>

\* variant: the set without 'Rebooting'
RunningWithoutRebooting == {"Pending", "InService"}

RUNNING_LIFECYCLE_STATES == {"Pending", "InService", "Rebooting"}

\* variant: the provider is told to decrement the desired capacity
DecrementDesiredCapacity == TRUE

\* the flag terminate_instance passes: ShouldDecrementDesiredCapacity=False
ShouldDecrementDesiredCapacity == FALSE

----------------------------------------------------------------------------
(* Python values *)

\* Python's None, the result of dict.get on a missing key
None == "None"

\* the exception raised by get_auto_scaling_group
Raised == [exception |-> "Auto Scaling Group not found"]

\* the exception a failing provider call raises (botocore ClientError)
ClientError == [exception |-> "ClientError"]

\* value of a local that is not bound yet
Unbound == [unbound |-> TRUE]

Range(s) == {s[i] : i \in DOMAIN s}

\* instance identifiers: a str is its sequence of code points
InitialIds == {"i-1", "i-10", "i-2"}

\* a group starts the run with at most one member per identifier
MaxInstances == Cardinality(InitialIds)
NewInstanceIds == <<"i-0", "i-3", "i-4", "i-5", "i-6", "i-7", "i-8", "i-9">>

CodePoints(s) ==
    CASE s = "i-0"  -> <<105, 45, 48>>
      [] s = "i-1"  -> <<105, 45, 49>>
      [] s = "i-10" -> <<105, 45, 49, 48>>
      [] s = "i-2"  -> <<105, 45, 50>>
      [] s = "i-3"  -> <<105, 45, 51>>
      [] s = "i-4"  -> <<105, 45, 52>>
      [] s = "i-5"  -> <<105, 45, 53>>
      [] s = "i-6"  -> <<105, 45, 54>>
      [] s = "i-7"  -> <<105, 45, 55>>
      [] s = "i-8"  -> <<105, 45, 56>>
      [] s = "i-9"  -> <<105, 45, 57>>

\* str.__lt__: lexicographic comparison by code point
StrLess(a, b) ==
    LET x == CodePoints(a)
        y == CodePoints(b)
    IN  \E i \in 1..(Len(x) + 1) :
            /\ i <= Len(y)
            /\ \A j \in 1..(i - 1) : x[j] = y[j]
            /\ (i = Len(x) + 1 \/ x[i] < y[i])

\* sorted(iterable) for an iterable of distinct str
RECURSIVE sorted(_)
sorted(S) ==
    IF S = {} THEN <<>>
    ELSE LET m == CHOOSE x \in S : \A y \in S \ {x} : StrLess(x, y)
         IN  <<m>> \o sorted(S \ {m})

\* dict.get(key): the value, or None when the key is missing
Get(d, key) == IF key \in DOMAIN d THEN d[key] ELSE None

----------------------------------------------------------------------------
(* Pure functions of respawn.py *)

\* get_auto_scaling_group, given the AutoScalingGroups list of the response
get_auto_scaling_group(groups) ==
    IF groups = <<>> THEN Raised ELSE groups[1]

\* variant: the lifecycle state is not tested
ClassifyAnyState(acc, inst, desired) ==
    IF Get(inst, "LaunchConfigurationName") = desired
    THEN <<acc[1], acc[2] \cup {inst.InstanceId}>>
    ELSE <<acc[1] \cup {inst.InstanceId}, acc[2]>>

\* variant: the two branches of the comparison are exchanged
ClassifySwapped(acc, inst, desired) ==
    IF inst.LifecycleState \in RUNNING_LIFECYCLE_STATES
    THEN IF Get(inst, "LaunchConfigurationName") = desired
         THEN <<acc[1] \cup {inst.InstanceId}, acc[2]>>
         ELSE <<acc[1], acc[2] \cup {inst.InstanceId}>>
    ELSE acc

\* one iteration of the loop of get_instances_to_terminate:
\* acc = <<instances_to_terminate, instances_ok>>
ClassifyInstance(acc, inst, desired) ==
    IF inst.LifecycleState \in RUNNING_LIFECYCLE_STATES
    THEN IF Get(inst, "LaunchConfigurationName") = desired
         THEN <<acc[1], acc[2] \cup {inst.InstanceId}>>
         ELSE <<acc[1] \cup {inst.InstanceId}, acc[2]>>
    ELSE acc

RECURSIVE ClassifyFrom(_, _, _, _)
ClassifyFrom(insts, i, acc, desired) ==
    IF i > Len(insts) THEN acc
    ELSE ClassifyFrom(insts, i + 1, ClassifyInstance(acc, insts[i], desired), desired)

get_instances_to_terminate(g, desired) ==
    ClassifyFrom(g.Instances, 1, <<{}, {}>>, desired)

\* the inner loop of get_instances_in_service over one InstanceStates list
RECURSIVE HealthyFrom(_, _, _)
HealthyFrom(states, i, acc) ==
    IF i > Len(states) THEN acc
    ELSE HealthyFrom(states, i + 1,
                     IF states[i].State = "InService"
                     THEN acc \cup {states[i].InstanceId} ELSE acc)

\* variant: only the first balancer is asked
FirstBalancerOnly(lb_names, i, acc, health) ==
    HealthyFrom(health[lb_names[1]], 1, acc)

\* the outer loop over lb_names; health is the provider's answer per balancer
RECURSIVE BalancersFrom(_, _, _, _)
BalancersFrom(lb_names, i, acc, health) ==
    IF i > Len(lb_names) THEN acc
    ELSE BalancersFrom(lb_names, i + 1, HealthyFrom(health[lb_names[i]], 1, acc), health)

\* the loop over the re-fetched group's Instances
RECURSIVE LifecycleFrom(_, _, _)
LifecycleFrom(insts, i, acc) ==
    IF i > Len(insts) THEN acc
    ELSE LifecycleFrom(insts, i + 1,
                       IF insts[i].LifecycleState = "InService"
                       THEN acc \cup {insts[i].InstanceId} ELSE acc)

\* which branch get_instances_in_service takes: `if lb_names:`
UsesBalancers(g) == g.LoadBalancerNames # <<>>

\* variant: the snapshot passed in is read, without a re-fetch
SnapshotSource(g, groups) == g

\* the group whose lifecycle states are read in the branch without balancers:
\* `group = get_auto_scaling_group(boto3.client('autoscaling'), ...)`
LifecycleSource(g, groups) == get_auto_scaling_group(groups)

\* get_instances_in_service raises when that re-fetch finds no group
InServiceRaises(g, groups) ==
    ~UsesBalancers(g) /\ LifecycleSource(g, groups) = Raised

\* get_instances_in_service(group, region), where it does not raise; groups is
\* the provider's answer to the describe call of the else branch, health its
\* answers to describe_instance_health
get_instances_in_service(g, groups, health) ==
    IF UsesBalancers(g)
    THEN BalancersFrom(g.LoadBalancerNames, 1, {}, health)
    ELSE LifecycleFrom(LifecycleSource(g, groups).Instances, 1, {})

\* variant: no spare slot
NoExtraCapacity(inpl) == 0

\* variant: a spare slot also when inplace
AlwaysExtraCapacity(inpl) == 1

\* `extra_capacity = 0 if inplace else 1`
extra_capacity(inpl) == IF inpl THEN 0 ELSE 1

\* variant: `sorted(instances_to_terminate)[-1]`
LastInstance(S) == sorted(S)[Len(sorted(S))]

\* `instance = sorted(instances_to_terminate)[0]`
NextInstance(S) == sorted(S)[1]

\* variant: the loop waits for one instance more than asked
ScaleOutStrict(in_service, desired) == Cardinality(in_service) > desired

\* variant: the loop is left one instance short
ScaleOutOneShort(in_service, desired) == Cardinality(in_service) >= desired - 1

\* the test of the scale_out loop
ScaleOutSatisfied(in_service, desired) == Cardinality(in_service) >= desired

\* variant: the loop stops one instance early
WhileHeadOffByOne(S) == IF Cardinality(S) > 1 THEN "scale_out" ELSE "restore"

\* position after the test of `while instances_to_terminate:`
WhileHead(S) == IF S # {} THEN "scale_out" ELSE "restore"

\* variant: the orchestrator is entered unconditionally
AlwaysEnter(S) == "suspend"

\* `if instances_to_terminate:` of respawn_auto_scaling_group
AfterClassify(S) == IF S # {} THEN "suspend" ELSE "done"

\* variant: an exception raised inside the loop is caught and the run goes on
\* with the reset and resume steps (a rollback)
RollbackOnError(p) ==
    IF p \in {"scale_out", "scale_out_fetch", "scale_out_check",
              "terminate", "terminate_poll"}
    THEN "restore" ELSE "raised"

\* position after an exception raised at position p: no function of the run
\* has a handler, the exception leaves respawn_auto_scaling_group
OnError(p) == "raised"

\* variant: the reset step writes the target capacity again
TargetCapacity(g) == <<new_min_size, new_max_size, new_desired_capacity>>

\* the capacity the reset step writes: the snapshot's MinSize, MaxSize, DesiredCapacity
OriginalCapacity(g) == <<g.MinSize, g.MaxSize, g.DesiredCapacity>>


----------------------------------------------------------------------------
(* The provider: what its calls do to the remote state, and what it does  *)
(* on its own while the run is in progress                                 *)

LaunchConfigs == {"lc-1", "lc-2"}
LoadBalancers == {"lb-1", "lb-2"}

\* the AutoScalingGroups list a describe call may answer: the group, or none
describe_auto_scaling_groups == {<<asg>>, <<>>}

\* the run has neither returned nor raised
Running == pc \notin {"done", "raised"}

\* update_auto_scaling_group(MinSize, MaxSize, DesiredCapacity)
ProviderUpdate(a, mn, mx, des) ==
    [a EXCEPT !.MinSize = mn, !.MaxSize = mx, !.DesiredCapacity = des]

\* suspend_processes(ScalingProcesses=procs)
ProviderSuspend(a, procs) ==
    [a EXCEPT !.SuspendedProcesses = @ \cup Range(procs)]

\* resume_processes() without ScalingProcesses resumes every process
ProviderResume(a) == [a EXCEPT !.SuspendedProcesses = {}]

\* terminate_instance_in_auto_scaling_group: the desired capacity goes down by
\* one when the caller asks for it
ProviderTerminate(a, decrement) ==
    IF decrement THEN [a EXCEPT !.DesiredCapacity = @ - 1] ELSE a

\* members that count towards the desired capacity
Live(a, req) ==
    {i \in DOMAIN a.Instances :
        /\ a.Instances[i].LifecycleState \in {"Pending", "InService", "Rebooting"}
        /\ a.Instances[i].InstanceId \notin req}

\* the InstanceStates list of a balancer without the entries of id
RECURSIVE Deregister(_, _)
Deregister(states, id) ==
    IF states = <<>> THEN <<>>
    ELSE IF Head(states).InstanceId = id THEN Deregister(Tail(states), id)
         ELSE <<Head(states)>> \o Deregister(Tail(states), id)

\* the InstanceStates list of a balancer with the entry e added; a balancer
\* lists its instances in order of identifier
RECURSIVE Register(_, _)
Register(states, e) ==
    IF states = <<>> THEN <<e>>
    ELSE IF StrLess(e.InstanceId, Head(states).InstanceId) THEN <<e>> \o states
         ELSE <<Head(states)>> \o Register(Tail(states), e)

\* the provider starts an instance while the group is below its desired capacity
ProviderLaunches ==
    /\ Running
    /\ Cardinality(Live(asg, termReq)) < asg.DesiredCapacity
    /\ launched < Len(NewInstanceIds)
    /\ asg' = [asg EXCEPT !.Instances =
                  Append(@, [InstanceId |-> NewInstanceIds[launched + 1],
                             LifecycleState |-> "Pending",
                             LaunchConfigurationName |-> asg.LaunchConfigurationName])]
    /\ launched' = launched + 1
    /\ UNCHANGED <<elb, termReq, pc, inplace, group, classes, sizes,
                   current_group, instance, instances_in_service, calls,
                   error, other>>

\* a starting or rebooting member comes up and is registered with the balancers
InstanceEntersService ==
    \E i \in DOMAIN asg.Instances :
        /\ Running
        /\ asg.Instances[i].LifecycleState \in {"Pending", "Rebooting"}
        /\ asg' = [asg EXCEPT !.Instances[i].LifecycleState = "InService"]
        /\ elb' = [lb \in LoadBalancers |->
                      IF lb \in Range(asg.LoadBalancerNames)
                      THEN Register(elb[lb], [InstanceId |-> asg.Instances[i].InstanceId,
                                              State |-> "OutOfService"])
                      ELSE elb[lb]]
        /\ UNCHANGED <<termReq, launched, pc, inplace, group, classes, sizes,
                       current_group, instance, instances_in_service, calls,
                       error, other>>

\* a balancer's health check of a registered instance passes
BalancerReportsHealthy ==
    \E lb \in LoadBalancers : \E j \in DOMAIN elb[lb] :
        /\ Running
        /\ elb[lb][j].State = "OutOfService"
        /\ elb' = [elb EXCEPT ![lb][j].State = "InService"]
        /\ UNCHANGED <<asg, termReq, launched, pc, inplace, group, classes, sizes,
                       current_group, instance, instances_in_service, calls,
                       error, other>>

\* a requested termination takes effect: the member leaves service
TerminationTakesEffect ==
    \E i \in DOMAIN asg.Instances :
        /\ Running
        /\ asg.Instances[i].InstanceId \in termReq
        /\ asg' = [asg EXCEPT !.Instances[i].LifecycleState = "Terminating"]
        /\ elb' = [lb \in LoadBalancers |->
                      Deregister(elb[lb], asg.Instances[i].InstanceId)]
        /\ termReq' = termReq \ {asg.Instances[i].InstanceId}
        /\ UNCHANGED <<launched, pc, inplace, group, classes, sizes,
                       current_group, instance, instances_in_service, calls,
                       error, other>>

----------------------------------------------------------------------------
(* The program: respawn_auto_scaling_group and what it calls *)

UpdateCall(mn, mx, des) ==
    [op |-> "update_auto_scaling_group", MinSize |-> mn, MaxSize |-> mx,
     DesiredCapacity |-> des]

\* an exception leaves scale_out or terminate_instance: their locals are gone
Unwind ==
    /\ current_group' = Unbound
    /\ instance' = None
    /\ instances_in_service' = {}

\* respawn_auto_scaling_group: fetch, classify, branch
Respawn ==
    /\ pc = "start"
    /\ \E groups \in describe_auto_scaling_groups :
          LET g == get_auto_scaling_group(groups)
              r == get_instances_to_terminate(g, g.LaunchConfigurationName)
          IN  IF g = Raised
              THEN /\ pc' = OnError(pc)
                   /\ error' = g.exception
                   /\ UNCHANGED <<group, classes>>
              ELSE /\ group' = g
                   /\ desired_launch_config' = g.LaunchConfigurationName
                   /\ instances_to_terminate' = r[1]
                   /\ instances_ok' = r[2]
                   /\ pc' = AfterClassify(r[1])
                   /\ UNCHANGED error
    /\ UNCHANGED <<provider, inplace, sizes, current_group, instance,
                   instances_in_service, calls, other>>

\* do_respawn_auto_scaling_group up to the loop: suspend, compute the target
Suspend ==
    /\ pc = "suspend"
    /\ asg' = ProviderSuspend(asg, SCALING_PROCESSES_TO_SUSPEND)
    /\ calls' = Append(calls, [op |-> "suspend_processes",
                               ScalingProcesses |-> SCALING_PROCESSES_TO_SUSPEND])
    /\ new_min_size' = group.MinSize + extra_capacity(inplace)
    /\ new_max_size' = group.MaxSize + extra_capacity(inplace)
    /\ new_desired_capacity' = group.DesiredCapacity + extra_capacity(inplace)
    /\ pc' = WhileHead(instances_to_terminate)
    /\ UNCHANGED <<elb, termReq, launched, inplace, group, classes,
                   current_group, instance, instances_in_service,
                   error, other>>

\* scale_out: the capacity update
ScaleOutUpdate ==
    /\ pc = "scale_out"
    /\ asg' = ProviderUpdate(asg, new_min_size, new_max_size, new_desired_capacity)
    /\ calls' = Append(calls, UpdateCall(new_min_size, new_max_size, new_desired_capacity))
    /\ pc' = "scale_out_fetch"
    /\ UNCHANGED <<elb, termReq, launched, inplace, group, classes, sizes,
                   current_group, instance, instances_in_service,
                   error, other>>

\* scale_out: `current_group = get_auto_scaling_group(asg, asg_name)`
ScaleOutFetch ==
    /\ pc = "scale_out_fetch"
    /\ \E groups \in describe_auto_scaling_groups :
          LET g == get_auto_scaling_group(groups)
          IN  IF g = Raised
              THEN pc' = OnError(pc) /\ error' = g.exception /\ Unwind
              ELSE /\ pc' = "scale_out_check"
                   /\ current_group' = g
                   /\ UNCHANGED <<error, instance, instances_in_service>>
    /\ UNCHANGED <<provider, inplace, group, classes, sizes, calls, other>>

\* scale_out: the in-service count is too low: sleep and poll again
ScaleOutSleep ==
    /\ pc = "scale_out_check"
    /\ \E groups \in describe_auto_scaling_groups :
          LET s == get_instances_in_service(current_group, groups, elb)
          IN  /\ ~InServiceRaises(current_group, groups)
              /\ ~ScaleOutSatisfied(s, new_desired_capacity)
              /\ instances_in_service' = s
              /\ pc' = "scale_out_fetch"
    /\ UNCHANGED <<provider, inplace, group, classes, sizes, current_group,
                   instance, calls,
                   error, other>>

\* scale_out returns; `instance = sorted(instances_to_terminate)[0]`
ScaleOutReached ==
    /\ pc = "scale_out_check"
    /\ \E groups \in describe_auto_scaling_groups :
          LET s == get_instances_in_service(current_group, groups, elb)
          IN  /\ ~InServiceRaises(current_group, groups)
              /\ ScaleOutSatisfied(s, new_desired_capacity)
              /\ instances_in_service' = s
              /\ instance' = NextInstance(instances_to_terminate)
              /\ pc' = "terminate"
    /\ UNCHANGED <<provider, inplace, group, classes, sizes, current_group, calls,
                   error, other>>

\* a poll of get_instances_in_service re-fetches the group and finds none
PollRaises ==
    /\ pc \in {"scale_out_check", "terminate_poll"}
    /\ \E groups \in describe_auto_scaling_groups :
          /\ InServiceRaises(current_group, groups)
          /\ error' = LifecycleSource(current_group, groups).exception
    /\ pc' = OnError(pc)
    /\ Unwind
    /\ UNCHANGED <<provider, inplace, group, classes, sizes, calls, other>>

\* a provider call of the run fails: the exception leaves every function of
\* the run, none of which catches it
CallFails ==
    /\ pc \in {"start", "suspend", "scale_out", "scale_out_fetch", "scale_out_check",
                "terminate", "terminate_poll", "restore", "resume"}
    /\ pc' = OnError(pc)
    /\ error' = ClientError.exception
    /\ Unwind
    /\ UNCHANGED <<provider, inplace, group, classes, sizes, calls, other>>

\* terminate_instance: the terminate call
TerminateCall ==
    /\ pc = "terminate"
    /\ termReq' = termReq \cup {instance}
    /\ asg' = ProviderTerminate(asg, ShouldDecrementDesiredCapacity)
    /\ calls' = Append(calls, [op |-> "terminate_instance_in_auto_scaling_group",
                               InstanceId |-> instance,
                               ShouldDecrementDesiredCapacity |->
                                   ShouldDecrementDesiredCapacity])
    /\ pc' = "terminate_poll"
    /\ UNCHANGED <<elb, launched, inplace, group, classes, sizes,
                   current_group, instance, instances_in_service,
                   error, other>>

\* terminate_instance: the instance is still in service: sleep and poll again
TerminateSleep ==
    /\ pc = "terminate_poll"
    /\ \E groups \in describe_auto_scaling_groups :
          LET s == get_instances_in_service(current_group, groups, elb)
          IN  /\ ~InServiceRaises(current_group, groups)
              /\ instance \in s
              /\ instances_in_service' = s
    /\ pc' = "terminate_poll"
    /\ UNCHANGED <<provider, inplace, group, classes, sizes, current_group,
                   instance, calls,
                   error, other>>

\* terminate_instance returns; `instances_to_terminate.remove(instance)`
TerminateDone ==
    /\ pc = "terminate_poll"
    /\ \E groups \in describe_auto_scaling_groups :
          LET s == get_instances_in_service(current_group, groups, elb)
          IN  /\ ~InServiceRaises(current_group, groups)
              /\ instance \notin s
              /\ instances_in_service' = s
    /\ instances_to_terminate' = instances_to_terminate \ {instance}
    /\ pc' = WhileHead(instances_to_terminate')
    /\ UNCHANGED <<provider, inplace, group, desired_launch_config, instances_ok,
                   sizes, current_group, instance, calls,
                   error, other>>

\* do_respawn_auto_scaling_group: reset to the original capacity
Restore ==
    /\ pc = "restore"
    /\ LET c == OriginalCapacity(group)
       IN  /\ asg' = ProviderUpdate(asg, c[1], c[2], c[3])
           /\ calls' = Append(calls, UpdateCall(c[1], c[2], c[3]))
    /\ pc' = "resume"
    /\ UNCHANGED <<elb, termReq, launched, inplace, group, classes, sizes,
                   current_group, instance, instances_in_service,
                   error, other>>

\* do_respawn_auto_scaling_group: resume the scaling processes
Resume ==
    /\ pc = "resume"
    /\ asg' = ProviderResume(asg)
    /\ calls' = Append(calls, [op |-> "resume_processes"])
    /\ pc' = "done"
    /\ UNCHANGED <<elb, termReq, launched, inplace, group, classes, sizes,
                   current_group, instance, instances_in_service,
                   error, other>>

----------------------------------------------------------------------------
(* Initial states: a group and a run about to start *)

\* what a member in a running-like state may look like when the run starts:
\* in service with the active or with an older configuration, or rebooting
\* with the key LaunchConfigurationName missing (the configuration was
\* deleted); members in other states are left to SpecClassify
InitialKinds ==
    {[LifecycleState |-> "InService", LaunchConfigurationName |-> "lc-2"],
     [LifecycleState |-> "InService", LaunchConfigurationName |-> "lc-1"],
     [LifecycleState |-> "Rebooting"]}

\* the member of kind k under identifier id
Member(id, k) == [x \in {"InstanceId"} |-> id] @@ k

Ordered(f) ==
    \/ \A i, j \in DOMAIN f : i < j => StrLess(f[i].InstanceId, f[j].InstanceId)
    \/ \A i, j \in DOMAIN f : i < j => StrLess(f[j].InstanceId, f[i].InstanceId)

\* Instances lists of n members, listed in ascending or in descending order
\* of identifier; they carry the n first identifiers of InitialIds
InstanceLists(n) ==
    {f \in [1..n -> {Member(id, k) : id \in Range(SubSeq(sorted(InitialIds), 1, n)),
                                      k \in InitialKinds}] :
        Ordered(f)}

\* the balancer's list when the run starts: the members in service, all healthy
RECURSIVE Registered(_)
Registered(insts) ==
    IF insts = <<>> THEN <<>>
    ELSE IF Head(insts).LifecycleState = "InService"
         THEN Register(Registered(Tail(insts)),
                       [InstanceId |-> Head(insts).InstanceId, State |-> "InService"])
         ELSE Registered(Tail(insts))

RunningCount(insts) ==
    Cardinality({i \in DOMAIN insts :
                    insts[i].LifecycleState \in {"Pending", "InService", "Rebooting"}})

\* the processes a group may have suspended when the run starts: a group of
\* at most one member may have the health check suspended
SuspendedAtStart(insts) ==
    IF Len(insts) <= 1 THEN {{}, {"HealthCheck"}} ELSE {{}}

\* the groups a run may find: any number of members in a running-like state,
\* fewer than the desired capacity, as many, or more
InitialGroups ==
    UNION {{[AutoScalingGroupName |-> "asg-1",
             MinSize |-> d - 1, MaxSize |-> d + 1, DesiredCapacity |-> d,
             LaunchConfigurationName |-> "lc-2",
             LoadBalancerNames |-> lbs,
             Instances |-> insts,
             SuspendedProcesses |-> sp] :
               d \in 1..MaxDesired,
               lbs \in {<<>>, <<"lb-1">>},
               sp \in SuspendedAtStart(insts)} :
           insts \in UNION {InstanceLists(n) : n \in 0..MaxInstances}}

Init ==
    /\ asg \in InitialGroups
    /\ elb = [lb \in LoadBalancers |->
                 IF lb \in Range(asg.LoadBalancerNames)
                 THEN Registered(asg.Instances) ELSE <<>>]
    /\ termReq = {}
    /\ launched = 0
    /\ pc = "start"
    /\ inplace \in BOOLEAN
    /\ group = Unbound
    /\ desired_launch_config = None
    /\ instances_to_terminate = {}
    /\ instances_ok = {}
    /\ new_min_size = 0
    /\ new_max_size = 0
    /\ new_desired_capacity = 0
    /\ current_group = Unbound
    /\ instance = None
    /\ instances_in_service = {}
    /\ error = None
    /\ calls = <<>>
    /\ other = Unbound

Next ==
    \/ Respawn
    \/ Suspend
    \/ ScaleOutUpdate
    \/ ScaleOutFetch
    \/ ScaleOutSleep
    \/ ScaleOutReached
    \/ PollRaises
    \/ CallFails
    \/ TerminateCall
    \/ TerminateSleep
    \/ TerminateDone
    \/ Restore
    \/ Resume
    \/ ProviderLaunches
    \/ InstanceEntersService
    \/ BalancerReportsHealthy
    \/ TerminationTakesEffect

Spec == Init /\ [][Next]_vars

\* the steps of a run and of the provider when no provider call fails and
\* every group lookup finds the group
RespawnFinds == Respawn /\ error' = None
ScaleOutFetches == ScaleOutFetch /\ error' = None

NextWithoutFailure ==
    \/ RespawnFinds
    \/ Suspend
    \/ ScaleOutUpdate
    \/ ScaleOutFetches
    \/ ScaleOutSleep
    \/ ScaleOutReached
    \/ TerminateCall
    \/ TerminateSleep
    \/ TerminateDone
    \/ Restore
    \/ Resume
    \/ ProviderLaunches
    \/ InstanceEntersService
    \/ BalancerReportsHealthy
    \/ TerminationTakesEffect

\* a step of the run
RunStep ==
    \/ RespawnFinds
    \/ Suspend
    \/ ScaleOutUpdate
    \/ ScaleOutFetches
    \/ ScaleOutSleep
    \/ ScaleOutReached
    \/ TerminateCall
    \/ TerminateSleep
    \/ TerminateDone
    \/ Restore
    \/ Resume

\* the runs followed to their end start from the groups of Init that hold
\* fewer than MaxInstances members, list them in ascending order and have no
\* process suspended
InitConverging ==
    /\ Init
    /\ Len(asg.Instances) < MaxInstances
    /\ asg.SuspendedProcesses = {}
    /\ \A i, j \in DOMAIN asg.Instances :
          i < j => StrLess(asg.Instances[i].InstanceId, asg.Instances[j].InstanceId)

\* a provider that converges and never fails: the run is never stopped for
\* good (every sleep ends), members the group lacks are launched, launched
\* members come into service and pass the balancer's health check, and a
\* requested termination takes effect
SpecConverging ==
    /\ InitConverging
    /\ [][NextWithoutFailure]_vars
    /\ WF_vars(RunStep)
    /\ WF_vars(ProviderLaunches)
    /\ WF_vars(InstanceEntersService)
    /\ WF_vars(BalancerReportsHealthy)
    /\ WF_vars(TerminationTakesEffect)

----------------------------------------------------------------------------
(* Two runs of respawn_auto_scaling_group against the same group.  The     *)
(* program variables hold the locals of the run that takes the next step;  *)
(* the locals of the other run wait in `other`.  Nothing in respawn.py     *)
(* makes one run wait for the other, so the scheduler may switch between   *)
(* them before any step.                                                   *)

\* the locals of the scheduled run
Locals ==
    [pc |-> pc, inplace |-> inplace, group |-> group,
     desired_launch_config |-> desired_launch_config,
     instances_to_terminate |-> instances_to_terminate,
     instances_ok |-> instances_ok,
     new_min_size |-> new_min_size, new_max_size |-> new_max_size,
     new_desired_capacity |-> new_desired_capacity,
     current_group |-> current_group, instance |-> instance,
     instances_in_service |-> instances_in_service, error |-> error]

\* the other run is scheduled
Switch ==
    /\ other # Unbound
    /\ other' = Locals
    /\ pc' = other.pc
    /\ inplace' = other.inplace
    /\ group' = other.group
    /\ desired_launch_config' = other.desired_launch_config
    /\ instances_to_terminate' = other.instances_to_terminate
    /\ instances_ok' = other.instances_ok
    /\ new_min_size' = other.new_min_size
    /\ new_max_size' = other.new_max_size
    /\ new_desired_capacity' = other.new_desired_capacity
    /\ current_group' = other.current_group
    /\ instance' = other.instance
    /\ instances_in_service' = other.instances_in_service
    /\ error' = other.error
    /\ UNCHANGED <<provider, calls>>

\* the capacity of the group before either run starts
CapacityBeforeRuns == [MinSize |-> 0, MaxSize |-> 2, DesiredCapacity |-> 1]

\* a group without balancer whose one member is in service and stale, at that
\* capacity, and two runs about to start
InitTwoRuns ==
    /\ asg = [AutoScalingGroupName |-> "asg-1",
              MinSize |-> CapacityBeforeRuns.MinSize,
              MaxSize |-> CapacityBeforeRuns.MaxSize,
              DesiredCapacity |-> CapacityBeforeRuns.DesiredCapacity,
              LaunchConfigurationName |-> "lc-2",
              LoadBalancerNames |-> <<>>,
              Instances |-> <<[InstanceId |-> "i-1", LifecycleState |-> "InService",
                               LaunchConfigurationName |-> "lc-1"]>>,
              SuspendedProcesses |-> {}]
    /\ elb = [lb \in LoadBalancers |->
                 IF lb \in Range(asg.LoadBalancerNames)
                 THEN Registered(asg.Instances) ELSE <<>>]
    /\ termReq = {}
    /\ launched = 0
    /\ pc = "start"
    /\ inplace \in BOOLEAN
    /\ group = Unbound
    /\ desired_launch_config = None
    /\ instances_to_terminate = {}
    /\ instances_ok = {}
    /\ new_min_size = 0
    /\ new_max_size = 0
    /\ new_desired_capacity = 0
    /\ current_group = Unbound
    /\ instance = None
    /\ instances_in_service = {}
    /\ error = None
    /\ calls = <<>>
    /\ \E b \in BOOLEAN : other = [Locals EXCEPT !.inplace = b]

\* both runs succeed in every provider call; the group has no balancer
NextTwoRuns ==
    \/ RunStep
    \/ Switch
    \/ ProviderLaunches
    \/ InstanceEntersService
    \/ TerminationTakesEffect

SpecTwoRuns == InitTwoRuns /\ [][NextTwoRuns]_vars

----------------------------------------------------------------------------
(* get_instances_to_terminate on its own: any snapshot, any desired         *)
(* launch configuration                                                    *)

LifecycleStates == {"Pending", "InService", "Rebooting", "Terminating", "Standby"}

\* the members a snapshot may list under identifier id
AnyInstances(id) ==
    {[InstanceId |-> id, LifecycleState |-> st, LaunchConfigurationName |-> l] :
        st \in LifecycleStates, l \in LaunchConfigs}
    \cup {[InstanceId |-> id, LifecycleState |-> st] : st \in LifecycleStates}

\* Instances lists of n members with distinct identifiers, in any order
AnyLists(n) ==
    {f \in [1..n -> UNION {AnyInstances(id) : id \in InitialIds}] :
        \A i, j \in 1..n : i # j => f[i].InstanceId # f[j].InstanceId}

\* the locals and the provider state a specification does not use
Idle ==
    /\ termReq = {}
    /\ launched = 0
    /\ inplace = FALSE
    /\ new_min_size = 0
    /\ new_max_size = 0
    /\ new_desired_capacity = 0
    /\ instance = None
    /\ error = None
    /\ calls = <<>>
    /\ other = Unbound

InitClassify ==
    /\ Idle
    /\ pc = "classify"
    /\ group \in {[AutoScalingGroupName |-> "asg-1", Instances |-> insts] :
                     insts \in UNION {AnyLists(n) : n \in 0..MaxInstances}}
    /\ desired_launch_config \in LaunchConfigs \cup {None}
    /\ instances_to_terminate = {}
    /\ instances_ok = {}
    /\ asg = Unbound
    /\ elb = [lb \in LoadBalancers |-> <<>>]
    /\ current_group = Unbound
    /\ instances_in_service = {}

\* one call of get_instances_to_terminate(group, desired_launch_config)
Classify ==
    /\ pc = "classify"
    /\ LET r == get_instances_to_terminate(group, desired_launch_config)
       IN  /\ instances_to_terminate' = r[1]
           /\ instances_ok' = r[2]
    /\ pc' = "classified"
    /\ UNCHANGED <<provider, inplace, group, desired_launch_config, sizes,
                   current_group, instance, instances_in_service, calls,
                   error, other>>

SpecClassify == InitClassify /\ [][Classify]_vars

----------------------------------------------------------------------------
(* get_instances_in_service on its own: any snapshot passed in, any        *)
(* current group, any answers of the balancers                             *)

\* snapshots and current groups list their members by lifecycle state
LifecycleLists(n) ==
    {f \in [1..n -> {[InstanceId |-> id, LifecycleState |-> st,
                      LaunchConfigurationName |-> "lc-2"] :
                        id \in InitialIds,
                        st \in {"Pending", "InService", "Rebooting", "Terminating"}}] :
        \A i, j \in 1..n : i # j => f[i].InstanceId # f[j].InstanceId}

HealthEntries ==
    {[InstanceId |-> id, State |-> st] :
        id \in InitialIds, st \in {"InService", "OutOfService"}}

\* the InstanceStates lists a balancer may answer
HealthLists ==
    {<<>>} \cup {<<e>> : e \in HealthEntries}
           \cup {<<e, f>> : e \in HealthEntries, f \in HealthEntries}

GroupOf(lbs, insts) ==
    [AutoScalingGroupName |-> "asg-1", MinSize |-> 0, MaxSize |-> 2,
     DesiredCapacity |-> 1, LaunchConfigurationName |-> "lc-2",
     LoadBalancerNames |-> lbs, Instances |-> insts, SuspendedProcesses |-> {}]

\* without a balancer: the snapshot passed in and the current group differ freely
InitNoBalancer ==
    /\ current_group \in {GroupOf(<<>>, insts) :
                             insts \in UNION {LifecycleLists(n) : n \in 0..MaxInstances}}
    /\ asg \in {GroupOf(<<>>, insts) :
                   insts \in UNION {LifecycleLists(n) : n \in 0..MaxInstances}}
    /\ elb = [lb \in LoadBalancers |-> <<>>]

\* with balancers: any answers, and a member in any lifecycle state
InitBalancers ==
    /\ current_group \in {GroupOf(lbs, insts) :
                             lbs \in {<<"lb-1">>, <<"lb-1", "lb-2">>, <<"lb-2", "lb-1">>},
                             insts \in LifecycleLists(0) \cup LifecycleLists(1)}
    /\ asg = current_group
    /\ elb \in [LoadBalancers -> HealthLists]

InitInService ==
    /\ Idle
    /\ pc = "in_service"
    /\ group = Unbound
    /\ desired_launch_config = None
    /\ instances_to_terminate = {}
    /\ instances_ok = {}
    /\ instances_in_service = {}
    /\ (InitNoBalancer \/ InitBalancers)

\* one call of get_instances_in_service(current_group, region) that returns
InServiceReturns ==
    /\ pc = "in_service"
    /\ \E groups \in describe_auto_scaling_groups :
          /\ ~InServiceRaises(current_group, groups)
          /\ instances_in_service' = get_instances_in_service(current_group, groups, elb)
    /\ pc' = "returned"
    /\ UNCHANGED <<provider, inplace, group, classes, sizes, current_group,
                   instance, calls,
                   error, other>>

\* one call of get_instances_in_service whose re-fetch finds no group
InServiceFails ==
    /\ pc = "in_service"
    /\ \E groups \in describe_auto_scaling_groups :
          /\ InServiceRaises(current_group, groups)
          /\ error' = LifecycleSource(current_group, groups).exception
    /\ pc' = "raised"
    /\ UNCHANGED <<provider, inplace, group, classes, sizes, current_group,
                   instance, instances_in_service, calls, other>>

SpecInService == InitInService /\ [][InServiceReturns \/ InServiceFails]_vars

----------------------------------------------------------------------------
(* Vocabulary of the properties *)

\* the members of snapshot g in a running-like state that do not carry g's
\* launch configuration
StaleIn(g) ==
    {g.Instances[i].InstanceId : i \in
        {j \in DOMAIN g.Instances :
            /\ g.Instances[j].LifecycleState \in {"Pending", "InService", "Rebooting"}
            /\ \/ "LaunchConfigurationName" \notin DOMAIN g.Instances[j]
               \/ g.Instances[j].LaunchConfigurationName # g.LaunchConfigurationName}}

\* the run has taken its snapshot
Started == pc # "start" /\ group # Unbound

\* the instances the provider counts as in service right now: by the attached
\* balancers' health when there are any, else by lifecycle state
InServiceNow ==
    IF asg.LoadBalancerNames = <<>>
    THEN {asg.Instances[i].InstanceId : i \in
             {j \in DOMAIN asg.Instances : asg.Instances[j].LifecycleState = "InService"}}
    ELSE {e.InstanceId : e \in
             {x \in UNION {Range(elb[lb]) : lb \in Range(asg.LoadBalancerNames)} :
                 x.State = "InService"}}

\* the identifiers of the terminate calls issued so far, in call order
TerminatedIds ==
    LET t == SelectSeq(calls, LAMBDA c : c.op = "terminate_instance_in_auto_scaling_group")
    IN  [i \in DOMAIN t |-> t[i].InstanceId]

\* all identifiers in ascending lexicographic order
LexOrder == <<"i-0", "i-1", "i-10", "i-2", "i-3", "i-4", "i-5", "i-6", "i-7", "i-8", "i-9">>
Rank(id) == CHOOSE r \in DOMAIN LexOrder : LexOrder[r] = id

\* the calls of a complete run over k stale instances, with the identifiers left open
ExpectedOps(k) ==
    <<"suspend_processes">>
    \o [i \in 1..(2 * k) |-> IF i % 2 = 1 THEN "update_auto_scaling_group"
                             ELSE "terminate_instance_in_auto_scaling_group"]
    \o <<"update_auto_scaling_group", "resume_processes">>

TargetCall ==
    LET x == IF inplace THEN 0 ELSE 1
    IN  [op |-> "update_auto_scaling_group", MinSize |-> group.MinSize + x,
         MaxSize |-> group.MaxSize + x, DesiredCapacity |-> group.DesiredCapacity + x]

OriginalCall ==
    [op |-> "update_auto_scaling_group", MinSize |-> group.MinSize,
     MaxSize |-> group.MaxSize, DesiredCapacity |-> group.DesiredCapacity]

----------------------------------------------------------------------------
(* Properties of the run *)

\* C1: the mutating calls of a run over k >= 1 stale instances are, in order,
\* one suspend, k times (update to the target bounds, terminate), one update
\* to the original bounds, one resume; at every moment the calls issued so far
\* are a prefix of that sequence, so no step is revisited.
C1_CallOrder ==
    Started /\ StaleIn(group) # {} =>
        LET k == Cardinality(StaleIn(group))
            e == ExpectedOps(k)
        IN  /\ Len(calls) <= Len(e)
            /\ \A i \in DOMAIN calls : calls[i].op = e[i]
            /\ \A i \in DOMAIN calls :
                  /\ (1 < i /\ i < 2 * k + 2 /\ i % 2 = 0) => calls[i] = TargetCall
                  /\ i = 2 * k + 2 => calls[i] = OriginalCall
            /\ pc = "done" => Len(calls) = Len(e)

C1_Witness ==
    /\ pc = "done"
    /\ Cardinality(StaleIn(group)) = 2
    /\ Len(calls) = 7

\* C2 as stated: without inplace, a terminate call is issued only after a poll
\* counted at least original desired + 1 instances in service, and from the
\* end of the first scale-out until the reset step the provider never counts
\* fewer than original desired instances in service.
C2_NoCapacityDip ==
    (Started /\ ~inplace) =>
        /\ pc = "terminate" =>
              Cardinality(instances_in_service) >= group.DesiredCapacity + 1
        /\ (instance # None /\ pc \in {"terminate", "terminate_poll", "scale_out",
                                        "scale_out_fetch", "scale_out_check", "restore"})
              => Cardinality(InServiceNow) >= group.DesiredCapacity

\* C2 as amended: without inplace, a terminate call is issued only after a
\* poll counted at least original desired + 1 instances in service; and when
\* the snapshot holds no more than original desired + 1 members in a
\* running-like state, the provider never counts fewer than original desired
\* instances in service from the end of the first scale-out until the reset
\* step.
C2_NoCapacityDipWithinTarget ==
    (Started /\ ~inplace) =>
        /\ pc = "terminate" =>
              Cardinality(instances_in_service) >= group.DesiredCapacity + 1
        /\ (/\ RunningCount(group.Instances) <= group.DesiredCapacity + 1
            /\ instance # None
            /\ pc \in {"terminate", "terminate_poll", "scale_out",
                        "scale_out_fetch", "scale_out_check", "restore"})
              => Cardinality(InServiceNow) >= group.DesiredCapacity

C2_Witness ==
    /\ ~inplace
    /\ pc = "terminate_poll"
    /\ RunningCount(group.Instances) = group.DesiredCapacity + 1
    /\ Len(TerminatedIds) = 2
    /\ Cardinality(InServiceNow) = group.DesiredCapacity

\* C3 as stated: when the run has returned, every member in a running-like
\* state carries the group's active launch configuration.
C3_Converged ==
    pc = "done" =>
        \A i \in DOMAIN asg.Instances :
            asg.Instances[i].LifecycleState \in {"Pending", "InService", "Rebooting"}
            => /\ "LaunchConfigurationName" \in DOMAIN asg.Instances[i]
               /\ asg.Instances[i].LaunchConfigurationName = asg.LaunchConfigurationName

\* C3 as amended: when the run has returned, every member in a running-like
\* state carries the group's active launch configuration or is a stale member
\* of the snapshot for which the run has issued its terminate call and whose
\* termination is still pending at the provider.
C3_ConvergedOrRequested ==
    pc = "done" =>
        \A i \in DOMAIN asg.Instances :
            asg.Instances[i].LifecycleState \in {"Pending", "InService", "Rebooting"}
            => \/ /\ "LaunchConfigurationName" \in DOMAIN asg.Instances[i]
                  /\ asg.Instances[i].LaunchConfigurationName = asg.LaunchConfigurationName
               \/ /\ asg.Instances[i].InstanceId \in Range(TerminatedIds)
                  /\ asg.Instances[i].InstanceId \in StaleIn(group)
                  /\ asg.Instances[i].InstanceId \in termReq

C3_Witness ==
    /\ pc = "done"
    /\ Len(TerminatedIds) = 2
    /\ \E i \in DOMAIN asg.Instances :
          /\ asg.Instances[i].LifecycleState = "Rebooting"
          /\ asg.Instances[i].InstanceId \in termReq
    /\ \E i \in DOMAIN asg.Instances :
          /\ asg.Instances[i].LifecycleState = "InService"
          /\ asg.Instances[i].InstanceId \notin Range(TerminatedIds)

\* C4: the terminate calls come in strictly ascending lexicographic order of
\* identifier, one per stale identifier of the snapshot, whatever the order of
\* the snapshot's list; the work set is empty once the loop has ended.
C4_AscendingOrder ==
    Started =>
        /\ \A i, j \in DOMAIN TerminatedIds :
              i < j => Rank(TerminatedIds[i]) < Rank(TerminatedIds[j])
        /\ Range(TerminatedIds) \subseteq StaleIn(group)
        /\ pc \in {"restore", "resume", "done"} =>
              /\ Range(TerminatedIds) = StaleIn(group)
              /\ instances_to_terminate = {}

C4_Witness ==
    /\ pc = "done"
    /\ TerminatedIds = <<"i-10", "i-2">>
    /\ group.Instances[1].InstanceId = "i-2"

\* C5: when the snapshot holds no stale instance the orchestrator is never
\* entered, no mutating call is issued, and capacity and suspended processes
\* stay as they were.
C5_NothingToDo ==
    (Started /\ StaleIn(group) = {}) =>
        /\ pc = "done"
        /\ calls = <<>>
        /\ asg.MinSize = group.MinSize
        /\ asg.MaxSize = group.MaxSize
        /\ asg.DesiredCapacity = group.DesiredCapacity
        /\ asg.SuspendedProcesses = group.SuspendedProcesses

C5_Witness ==
    /\ pc = "done"
    /\ calls = <<>>
    /\ Len(group.Instances) = 2
    /\ group.SuspendedProcesses = {}

\* C6: the last capacity update of a finished run writes exactly the snapshot's
\* MinSize, MaxSize and DesiredCapacity, and the group's configured capacity is
\* then what it was before the run, with and without inplace.
C6_CapacityRestored ==
    (pc = "done" /\ calls # <<>>) =>
        /\ Len(calls) >= 2
        /\ calls[Len(calls) - 1] = OriginalCall
        /\ asg.MinSize = group.MinSize
        /\ asg.MaxSize = group.MaxSize
        /\ asg.DesiredCapacity = group.DesiredCapacity

C6_Witness ==
    /\ pc = "done"
    /\ ~inplace
    /\ Len(calls) = 7
    /\ asg.DesiredCapacity = 2

----------------------------------------------------------------------------
(* Properties of get_instances_to_terminate *)

RunningLikeIn(g) ==
    {g.Instances[i].InstanceId : i \in
        {j \in DOMAIN g.Instances :
            g.Instances[j].LifecycleState \in {"Pending", "InService", "Rebooting"}}}

\* the running-like members of g that lack a launch configuration
LackingConfigIn(g) ==
    {g.Instances[i].InstanceId : i \in
        {j \in DOMAIN g.Instances :
            /\ g.Instances[j].LifecycleState \in {"Pending", "InService", "Rebooting"}
            /\ "LaunchConfigurationName" \notin DOMAIN g.Instances[j]}}

\* C7: the two sets returned are disjoint and their union is exactly the set of
\* members in a running-like state; members in other states are in neither.
C7_Partition ==
    pc = "classified" =>
        /\ instances_to_terminate \cap instances_ok = {}
        /\ instances_to_terminate \cup instances_ok = RunningLikeIn(group)

C7_Witness ==
    /\ pc = "classified"
    /\ instances_ok = {"i-10"}
    /\ instances_to_terminate = {}
    /\ \E i \in DOMAIN group.Instances :
          /\ group.Instances[i].InstanceId = "i-1"
          /\ group.Instances[i].LifecycleState = "Standby"

\* C8: a running-like member without a launch configuration is classified as
\* stale, never as ok, for every desired launch configuration, an absent one
\* included.
C8_MissingConfigIsStale ==
    pc = "classified" =>
        /\ LackingConfigIn(group) \subseteq instances_to_terminate
        /\ LackingConfigIn(group) \cap instances_ok = {}

----------------------------------------------------------------------------
(* Properties of get_instances_in_service *)

\* C9: without a balancer the result is exactly the members whose lifecycle
\* state is InService in the group as re-fetched, whatever the snapshot passed
\* in says.
C9_LifecycleOfFreshGroup ==
    (pc = "returned" /\ current_group.LoadBalancerNames = <<>>) =>
        instances_in_service =
            {asg.Instances[i].InstanceId : i \in
                {j \in DOMAIN asg.Instances : asg.Instances[j].LifecycleState = "InService"}}

C9_Witness ==
    /\ pc = "returned"
    /\ current_group.LoadBalancerNames = <<>>
    /\ instances_in_service = {"i-2"}
    /\ \E i \in DOMAIN asg.Instances : asg.Instances[i].LifecycleState = "Pending"
    /\ \E i \in DOMAIN current_group.Instances :
          /\ current_group.Instances[i].InstanceId = "i-1"
          /\ current_group.Instances[i].LifecycleState = "InService"

\* C10: with balancers attached the result is exactly the union, over the
\* attached balancers, of the identifiers each reports InService; lifecycle
\* states play no part and an identifier reported twice appears once.
C10_UnionOverBalancers ==
    (pc = "returned" /\ current_group.LoadBalancerNames # <<>>) =>
        instances_in_service =
            UNION {{e.InstanceId : e \in {x \in Range(elb[lb]) : x.State = "InService"}} :
                      lb \in Range(current_group.LoadBalancerNames)}

C10_Witness ==
    /\ pc = "returned"
    /\ current_group.LoadBalancerNames = <<"lb-1", "lb-2">>
    /\ instances_in_service = {"i-1", "i-2"}
    /\ elb["lb-1"] = <<[InstanceId |-> "i-1", State |-> "InService"],
                       [InstanceId |-> "i-10", State |-> "OutOfService"]>>
    /\ elb["lb-2"] = <<[InstanceId |-> "i-1", State |-> "InService"],
                       [InstanceId |-> "i-2", State |-> "InService"]>>
    /\ \E i \in DOMAIN current_group.Instances :
          /\ current_group.Instances[i].InstanceId = "i-10"
          /\ current_group.Instances[i].LifecycleState = "InService"

----------------------------------------------------------------------------
(* Further properties of the run *)

\* C11: with inplace, every capacity update of the run, in the loop and at the
\* reset step, carries the snapshot's MinSize, MaxSize and DesiredCapacity; every
\* terminate call directly follows a scale-out update; and scale_out waits for
\* the original desired capacity, so a terminate call is reached with that many
\* instances counted in service.
C11_InPlaceCapacity ==
    (Started /\ inplace) =>
        /\ \A i \in DOMAIN calls :
              calls[i].op = "update_auto_scaling_group" => calls[i] = OriginalCall
        /\ \A i \in DOMAIN calls :
              calls[i].op = "terminate_instance_in_auto_scaling_group"
              => i > 1 /\ calls[i - 1].op = "update_auto_scaling_group"
        /\ pc \in {"scale_out", "scale_out_fetch", "scale_out_check", "terminate"}
              => new_desired_capacity = group.DesiredCapacity
        /\ pc = "terminate"
              => /\ Cardinality(instances_in_service) >= group.DesiredCapacity
                 /\ calls[Len(calls)].op = "update_auto_scaling_group"

C11_Witness ==
    /\ inplace
    /\ pc = "terminate"
    /\ Len(TerminatedIds) = 1
    /\ group.DesiredCapacity = 2
    /\ Cardinality(instances_in_service) = 2

\* the group's configured capacity at the provider
ConfiguredCapacity == <<asg.MinSize, asg.MaxSize, asg.DesiredCapacity>>

\* what a step taken between the call and the return of terminate_instance does
TerminateFrameStep ==
    pc \in {"terminate", "terminate_poll"} =>
        /\ ConfiguredCapacity' = ConfiguredCapacity
        /\ IF pc = "terminate" /\ pc' = "terminate_poll"
           THEN calls' = Append(calls,
                                [op |-> "terminate_instance_in_auto_scaling_group",
                                 InstanceId |-> instance,
                                 ShouldDecrementDesiredCapacity |-> FALSE])
           ELSE calls' = calls
        /\ (pc = "terminate" /\ pc' \notin {"terminate", "raised"})
              => pc' = "terminate_poll"
        /\ (pc = "terminate_poll" /\ pc' \notin {"terminate_poll", "raised"})
              => /\ pc' \in {"scale_out", "restore"}
                 /\ instance' = instance
                 /\ calls[Len(calls)].InstanceId = instance

\* C12: from the call of terminate_instance to its return the run issues exactly
\* one mutating call, the terminate call for the given instance with
\* ShouldDecrementDesiredCapacity false, as its first step; it issues no
\* capacity update, and no step taken meanwhile changes the group's configured
\* MinSize, MaxSize or DesiredCapacity.
C12_TerminateFrame == [][TerminateFrameStep]_vars

\* terminate_instance has returned for the second time, after the provider
\* launched a replacement
C12_Witness ==
    /\ pc = "restore"
    /\ Len(TerminatedIds) = 2
    /\ calls[Len(calls)].op = "terminate_instance_in_auto_scaling_group"
    /\ calls[Len(calls)].InstanceId = instance
    /\ launched >= 1
    /\ ConfiguredCapacity = <<new_min_size, new_max_size, new_desired_capacity>>

\* what a step does once a provider call has failed, and the state a failure
\* after a successful suspend_processes leaves behind
AbortStep ==
    /\ error # None => UNCHANGED <<pc, error, calls, asg>>
    /\ (error = None /\ error' # None)
          => /\ pc' = "raised"
             /\ error' \in {Raised.exception, ClientError.exception}
             /\ calls' = calls
             /\ asg' = asg
    /\ (error' # None /\ calls' # <<>>)
          => /\ pc' = "raised"
             /\ \A i \in DOMAIN calls' : calls'[i].op # "resume_processes"
             /\ Range(SCALING_PROCESSES_TO_SUSPEND) \subseteq asg'.SuspendedProcesses
             /\ Len(calls') <= 2 * Cardinality(StaleIn(group')) + 1
                   => \A i \in DOMAIN calls' :
                         (i > 2 /\ calls'[i].op = "update_auto_scaling_group")
                         => calls'[i] = calls'[2]
             /\ (~inplace' /\ Len(calls') \in 2..(2 * Cardinality(StaleIn(group')) + 1))
                   => ConfiguredCapacity' = <<group'.MinSize + 1, group'.MaxSize + 1,
                                              group'.DesiredCapacity + 1>>

\* C13: a provider call that fails after suspend_processes has succeeded and
\* before resume_processes is issued ends the run with that exception; no call
\* follows, neither the reset of the capacity nor resume_processes, so the
\* processes stay suspended and, without inplace and once a scale-out update
\* was issued, the capacity stays at the expanded bounds.
C13_AbortWithoutRollback == [][AbortStep]_vars

\* the group lookup inside a terminate poll found no group
C13_Witness ==
    /\ pc = "raised"
    /\ error = Raised.exception
    /\ ~inplace
    /\ Len(TerminatedIds) = 1
    /\ calls[Len(calls)].op = "terminate_instance_in_auto_scaling_group"
    /\ asg.DesiredCapacity = group.DesiredCapacity + 1
    /\ asg.SuspendedProcesses = Range(SCALING_PROCESSES_TO_SUSPEND)

\* C15: with a provider that converges and never fails, every run that found
\* stale instances returns, with the work set empty, the capacity reset to the
\* snapshot's and the processes it suspended resumed, with and without inplace.
C15_RunReturns ==
    (Started /\ instances_to_terminate # {})
        ~> /\ pc = "done"
           /\ instances_to_terminate = {}
           /\ ConfiguredCapacity = <<group.MinSize, group.MaxSize, group.DesiredCapacity>>
           /\ asg.SuspendedProcesses \cap Range(SCALING_PROCESSES_TO_SUSPEND) = {}

\* a run with inplace over two stale instances has returned after the provider
\* launched two replacements
C15_Witness ==
    /\ pc = "done"
    /\ inplace
    /\ Cardinality(StaleIn(group)) = 2
    /\ launched = 2
    /\ error = None

\* what a step taken between the call and the return of scale_out does
ScaleOutStep ==
    pc \in {"scale_out", "scale_out_fetch", "scale_out_check"} =>
        /\ IF pc = "scale_out" /\ pc' = "scale_out_fetch"
           THEN calls' = Append(calls, UpdateCall(new_min_size, new_max_size,
                                                  new_desired_capacity))
           ELSE calls' = calls
        /\ (pc = "scale_out" /\ pc' \notin {"scale_out", "raised"})
              => pc' = "scale_out_fetch"
        /\ (pc = "scale_out_fetch" /\ pc' \notin {"scale_out_fetch", "raised"})
              => /\ pc' = "scale_out_check"
                 /\ current_group' = asg
        /\ (pc = "scale_out_check" /\ pc' \notin {"scale_out_check", "raised"})
              => /\ current_group' = current_group
                 /\ instances_in_service' =
                        IF current_group.LoadBalancerNames = <<>> THEN InServiceNow
                        ELSE {e.InstanceId : e \in
                                 {x \in UNION {Range(elb[lb]) :
                                     lb \in Range(current_group.LoadBalancerNames)} :
                                       x.State = "InService"}}
                 /\ IF Cardinality(instances_in_service') >= new_desired_capacity
                    THEN pc' = "terminate"
                    ELSE pc' = "scale_out_fetch"

\* C16: scale_out issues exactly one capacity update, as its first step; it
\* returns from the poll iteration that counted at least the desired capacity
\* in service, with the group fetched in that iteration, and an iteration that
\* counts fewer fetches again instead of returning.
C16_ScaleOutReturns == [][ScaleOutStep]_vars

\* scale_out has returned after the provider launched a replacement; the group
\* it returns is the one fetched in the last iteration, which the provider has
\* left behind since
C16_Witness ==
    /\ pc = "terminate"
    /\ ~inplace
    /\ Cardinality(instances_in_service) = new_desired_capacity
    /\ Len(current_group.Instances) > Len(group.Instances)
    /\ current_group # asg
    /\ calls[Len(calls)] = UpdateCall(new_min_size, new_max_size, new_desired_capacity)

\* C17: when the run has returned, the set of suspended scaling processes is
\* the set of the snapshot taken at the start: the three processes the run
\* suspends are resumed unless they were suspended before, and a process that
\* was suspended before the run still is.
C17_SuspensionRoundTrip ==
    (pc = "done" /\ Started) => asg.SuspendedProcesses = group.SuspendedProcesses

\* the identifiers of the instances the provider has launched during the run
LaunchedIds == {NewInstanceIds[i] : i \in 1..launched}

\* what a step of a started run does to the work set and the terminate calls
WorkSetStep ==
    Started' =>
        /\ Range(TerminatedIds') \subseteq StaleIn(group')
        /\ Range(TerminatedIds') \cap instances_ok' = {}
        /\ Range(TerminatedIds') \cap LaunchedIds' = {}
        /\ instances_to_terminate' \subseteq StaleIn(group')
        /\ Started =>
              IF pc = "terminate_poll" /\ pc' \in {"scale_out", "restore"}
              THEN /\ instance \in instances_to_terminate
                   /\ instances_to_terminate' = instances_to_terminate \ {instance}
                   /\ TerminatedIds[Len(TerminatedIds)] = instance
              ELSE instances_to_terminate' = instances_to_terminate

\* C18: every instance the orchestrator has issued a terminate call for is a
\* stale member of the snapshot taken at the start, never one classified ok and
\* never one launched during the run; the work set stays within the stale
\* members of that snapshot and changes only at the end of a loop iteration,
\* where it loses exactly the instance just terminated.
C18_OnlyStaleTerminated == [][WorkSetStep]_vars

C18_Witness ==
    /\ pc = "restore"
    /\ Len(TerminatedIds) = 1
    /\ instances_to_terminate = {}
    /\ instances_ok # {}
    /\ launched >= 1
    /\ \E i \in DOMAIN asg.Instances :
          /\ asg.Instances[i].InstanceId \in LaunchedIds
          /\ asg.Instances[i].LifecycleState = "InService"

\* with inplace: a terminate call is reached with at least the original desired
\* capacity counted in service, at most one requested termination is pending
\* at the provider, and from the end of the first scale-out until the reset
\* step the provider counts at least original desired - 1 instances in service
InPlaceFloor ==
    /\ pc = "terminate"
          => Cardinality(instances_in_service) >= group.DesiredCapacity
    /\ Cardinality(termReq) <= 1
    /\ (instance # None /\ pc \in {"terminate", "terminate_poll", "scale_out",
                                    "scale_out_fetch", "scale_out_check", "restore"})
          => Cardinality(InServiceNow) >= group.DesiredCapacity - 1

\* C19 as stated: with inplace, at most one termination is outstanding at a
\* time and the number of instances in service never falls below original
\* desired - 1 between the first scale-out and the reset step.
C19_OneOutstanding ==
    (Started /\ inplace) => InPlaceFloor

\* C19 as amended: the same, for a group that starts the run with no more
\* members in a running-like state than its desired capacity; every stale
\* member is then in service when its terminate call is issued.
C19_OneOutstandingFromFullGroup ==
    (Started /\ inplace /\ RunningCount(group.Instances) <= group.DesiredCapacity)
        => InPlaceFloor

\* the second termination of a run with inplace has taken effect: the group is
\* one instance short of the desired capacity and no termination is pending
C19_Witness ==
    /\ inplace
    /\ pc = "terminate_poll"
    /\ RunningCount(group.Instances) <= group.DesiredCapacity
    /\ Len(TerminatedIds) = 2
    /\ termReq = {}
    /\ group.DesiredCapacity = 2
    /\ Cardinality(InServiceNow) = 1

----------------------------------------------------------------------------
(* Two concurrent runs *)

\* the capacity updates issued so far by either run, in call order
UpdateCalls == SelectSeq(calls, LAMBDA c : c.op = "update_auto_scaling_group")

\* the reset call of a run whose locals are l, given that it entered the loop
ResetCallOf(l) ==
    [op |-> "update_auto_scaling_group", MinSize |-> l.group.MinSize,
     MaxSize |-> l.group.MaxSize, DesiredCapacity |-> l.group.DesiredCapacity]

\* C14: two runs against the same group are not kept apart.  When both have
\* returned, the configured capacity is whatever the later reset call wrote,
\* the capacity one of the two runs found in its own snapshot, which need not
\* be the capacity before either run started; and a run may find all
\* processes resumed by the other run while it is inside its loop.
C14_LastResetWins ==
    (pc = "done" /\ other.pc = "done" /\ UpdateCalls # <<>>) =>
        LET last == UpdateCalls[Len(UpdateCalls)]
        IN  /\ last \in {ResetCallOf(Locals), ResetCallOf(other)}
            /\ ConfiguredCapacity = <<last.MinSize, last.MaxSize, last.DesiredCapacity>>

\* both runs have returned and the capacity is not the one before the runs: the
\* second run took its snapshot after the first run's scale-out update, both
\* issued their terminate call one after the other, and the second run's reset
\* came last
C14_Witness ==
    /\ pc = "done"
    /\ other.pc = "done"
    /\ asg.DesiredCapacity # CapacityBeforeRuns.DesiredCapacity
    /\ asg.MinSize # CapacityBeforeRuns.MinSize
    /\ \E j \in DOMAIN calls :
          /\ j + 1 \in DOMAIN calls
          /\ calls[j].op = "terminate_instance_in_auto_scaling_group"
          /\ calls[j + 1].op = "terminate_instance_in_auto_scaling_group"

============================================================================
